---- MODULE Spec2Model ----
(***************************************************************************)
(* Model of the Scraper_Project pipeline:                                  *)
(*   - scraper_products.run_products_scraper  (per-identifier fetch)       *)
(*   - scraper_competitor.run_competitor_scraper (browser automation)      *)
(*   - app.run_competitor (competitor -> products -> annotation pipeline)  *)
(* Text values that the code normalises (identifier tokens, marketplace    *)
(* selectors) are sequences of one-character strings so that strip, upper, *)
(* lower, split and the pattern match are computed as the code does.       *)
(***************************************************************************)
EXTENDS Integers, Sequences, FiniteSets, TLC

(* ------------------------------ bounds -------------------------------- *)
\* longest list of identifier tokens typed into a form
MaxTokens == 2
\* most offers the offers endpoint returns for one product
MaxOffers == 1
\* most result cards one competitor search shows
MaxCards == 1
\* most identifier cells of one ad report, over its two sheets
MaxCells == 2

(* ------------------------- program constants -------------------------- *)
MAX_RETRIES == 5
\* number of characters after the "B0" prefix in the identifier pattern
AsinTailLen == 8

(* ------------------------------ text ---------------------------------- *)
LowerChars == <<"a","b","c","d","e","f","g","h","i","j","k","l","m","n","o","p","q","r","s","t","u","v","w","x","y","z">>
UpperChars == <<"A","B","C","D","E","F","G","H","I","J","K","L","M","N","O","P","Q","R","S","T","U","V","W","X","Y","Z">>
DigitChars == {"0","1","2","3","4","5","6","7","8","9"}
Whitespace == {" "}

Range(s) == {s[i] : i \in DOMAIN s}

\* str.upper() on one character
UpperChar(c) ==
    IF \E i \in DOMAIN LowerChars : LowerChars[i] = c
    THEN UpperChars[CHOOSE i \in DOMAIN LowerChars : LowerChars[i] = c]
    ELSE c

\* str.lower() on one character
LowerChar(c) ==
    IF \E i \in DOMAIN UpperChars : UpperChars[i] = c
    THEN LowerChars[CHOOSE i \in DOMAIN UpperChars : UpperChars[i] = c]
    ELSE c

StrUpper(s) == [i \in DOMAIN s |-> UpperChar(s[i])]
StrLower(s) == [i \in DOMAIN s |-> LowerChar(s[i])]

RECURSIVE LStrip(_)
LStrip(s) == IF s # <<>> /\ Head(s) \in Whitespace THEN LStrip(Tail(s)) ELSE s

RECURSIVE RStrip(_)
RStrip(s) ==
    IF s # <<>> /\ s[Len(s)] \in Whitespace THEN RStrip(SubSeq(s, 1, Len(s) - 1)) ELSE s

\* str.strip()
StrStrip(s) == RStrip(LStrip(s))

\* str.replace(",", " ")
ReplaceCommas(s) == [i \in DOMAIN s |-> IF s[i] = "," THEN " " ELSE s[i]]

RECURSIVE SplitWs(_, _, _)
\* str.split(): the maximal runs of non-whitespace characters, in order
SplitWs(s, cur, acc) ==
    IF s = <<>>
    THEN (IF cur = <<>> THEN acc ELSE Append(acc, cur))
    ELSE IF Head(s) \in Whitespace
         THEN SplitWs(Tail(s), <<>>, IF cur = <<>> THEN acc ELSE Append(acc, cur))
         ELSE SplitWs(Tail(s), Append(cur, Head(s)), acc)

NonEmptyStripped(a) == StrStrip(a) # <<>>

\* [a.strip() for a in asin_input.replace(",", " ").split() if a.strip()]
ParseAsinInput(raw) ==
    LET parts == SplitWs(ReplaceCommas(raw), <<>>, <<>>)
        kept  == SelectSeq(parts, NonEmptyStripped)
    IN  [i \in DOMAIN kept |-> StrStrip(kept[i])]

RECURSIVE JoinWith(_, _)
\* sep.join(tokens)
JoinWith(sep, toks) ==
    IF toks = <<>> THEN <<>>
    ELSE IF Len(toks) = 1 THEN toks[1]
    ELSE toks[1] \o sep \o JoinWith(sep, Tail(toks))

\* re.fullmatch(r"B0[A-Z0-9]{8}", x)
FullMatchAsin(x) ==
    /\ Len(x) = 2 + AsinTailLen
    /\ x[1] = "B"
    /\ x[2] = "0"
    /\ \A i \in 3..Len(x) : x[i] \in Range(UpperChars) \cup DigitChars

(* --------------------------- identifier tokens ------------------------ *)
TokSeed   == <<"B","0","A","B","C","D","E","F","G","H">>
TokComp   == <<"B","0","X","Y","Z","1","2","3","4","5">>
TokLower  == <<"b","0","a","b","c","d","e","f","g","h">>
TokIsbn   == <<"1","4","9","1","9","5","0","3","5","8">>
TokShort  == <<"X","Y","Z">>

\* tokens a user may type
TokenPool == {TokSeed, TokLower, TokShort}

\* separators a user may type between tokens
Separators == {<<" ">>, <<",", " ">>}

RECURSIVE SeqsUpTo(_, _)
SeqsUpTo(S, n) ==
    IF n = 0 THEN {<<>>}
    ELSE LET shorter == SeqsUpTo(S, n - 1)
         IN  shorter \cup {Append(s, x) : s \in {t \in shorter : Len(t) = n - 1}, x \in S}

\* raw text of the identifier form field
RawInputs == {JoinWith(sep, toks) : sep \in Separators, toks \in SeqsUpTo(TokenPool, MaxTokens)}

\* tokens given to the competitor scraper, and the texts that hold them
SearchPool == {TokSeed, TokShort}

SearchInputs == {JoinWith(<<",", " ">>, toks) : toks \in SeqsUpTo(SearchPool, MaxTokens)}

(* ------------------- scraper_products: configuration ------------------ *)
\* MARKETPLACES, in insertion order
MARKETPLACES ==
    << <<"Amazon India", "amazon.in">>,
       <<"Amazon USA",   "amazon.com">>,
       <<"Amazon SG",    "amazon.sg">>,
       <<"Amazon AE",    "amazon.ae">>,
       <<"Amazon UK",    "amazon.co.uk">> >>

\* _MARKETPLACE_ALIASES
MARKETPLACE_ALIASES ==
    {  <<<<"i","n","d","i","a">>, "Amazon India">>,
       <<<<"i","n">>, "Amazon India">>,
       <<<<"u","s">>, "Amazon USA">>,
       <<<<"u","s","a">>, "Amazon USA">>,
       <<<<"u","n","i","t","e","d"," ","s","t","a","t","e","s">>, "Amazon USA">>,
       <<<<"a","m","e","r","i","c","a">>, "Amazon USA">>,
       <<<<"s","g">>, "Amazon SG">>,
       <<<<"s","i","n","g","a","p","o","r","e">>, "Amazon SG">>,
       <<<<"a","e">>, "Amazon AE">>,
       <<<<"u","a","e">>, "Amazon AE">>,
       <<<<"u","n","i","t","e","d"," ","a","r","a","b"," ","e","m","i","r","a","t","e","s">>, "Amazon AE">>,
       <<<<"u","k">>, "Amazon UK">>,
       <<<<"g","b">>, "Amazon UK">>,
       <<<<"g","r","e","a","t"," ","b","r","i","t","a","i","n">>, "Amazon UK">>,
       <<<<"u","n","i","t","e","d"," ","k","i","n","g","d","o","m">>, "Amazon UK">> }

\* marketplace selectors a user may type; <<>> is the empty field (None)
MarketplaceInputs == {<<>>, <<" ","U","k"," ">>, <<"d","e">>}

\* alias lookup on the text as typed, without strip().lower()
ResolveMarketplaceAsTyped(user_input) ==
    IF \E a \in MARKETPLACE_ALIASES : a[1] = user_input
    THEN LET name == (CHOOSE a \in MARKETPLACE_ALIASES : a[1] = user_input)[2]
         IN  MARKETPLACES[CHOOSE i \in DOMAIN MARKETPLACES : MARKETPLACES[i][1] = name]
    ELSE <<>>

\* _resolve_marketplace: <<>> stands for None, else <<name, base_url>>
ResolveMarketplace(user_input) ==
    IF user_input = <<>> THEN <<>>
    ELSE LET key == StrLower(StrStrip(user_input))
         IN  IF \E a \in MARKETPLACE_ALIASES : a[1] = key
             THEN LET name == (CHOOSE a \in MARKETPLACE_ALIASES : a[1] = key)[2]
                  IN  IF \E i \in DOMAIN MARKETPLACES : MARKETPLACES[i][1] = name
                      THEN MARKETPLACES[CHOOSE i \in DOMAIN MARKETPLACES : MARKETPLACES[i][1] = name]
                      ELSE <<>>
             ELSE <<>>

\* specific_marketplaces of run_products_scraper
SpecificMarketplaces(marketplace) ==
    LET resolved == ResolveMarketplace(marketplace)
    IN  IF resolved # <<>> THEN <<resolved>> ELSE MARKETPLACES

(* --------------------- scraper_products: records ---------------------- *)
ProductKeys ==
    {"ASIN", "Marketplace", "Product Title", "Rating", "Total Reviews", "Social Bought",
     "Amazons_Choice_Text", "Deal_Badge_Text", "Best_Seller_Text", "Discount %",
     "Offer Price", "Price per Unit", "MRP", "Brand", "Model Number", "Country of Origin",
     "Customer Reviews", "Best Sellers Rank", "Manufacturer", "Packer", "Availability",
     "Delivery info", "Ships from", "Sold by", "Gift options"}

BadgeKeys == {"Amazons_Choice_Text", "Deal_Badge_Text", "Best_Seller_Text"}

\* product_data of scrape_asin_from_url for a page on which only the title is found
FoundRecord(asin, marketplace_name) ==
    [k \in ProductKeys |->
        CASE k = "ASIN"          -> asin
          [] k = "Marketplace"   -> marketplace_name
          [] k = "Product Title" -> "Title"
          [] k \in BadgeKeys     -> "unavailable"
          [] k = "Discount %"    -> "NO %"
          [] k = "Gift options"  -> "Not available"
          [] OTHER               -> "N/A"]

\* the row appended when asin_found is false
NotFoundRecord(asin) ==
    [k \in ProductKeys |->
        CASE k = "ASIN"          -> asin
          [] k = "Product Title" -> "Not Found"
          [] k \in BadgeKeys     -> "unavailable"
          [] OTHER               -> "N/A"]

OfferKeys ==
    {"ASIN", "Marketplace", "Offer Price", "Discount %", "MRP", "Ships From", "Sold By",
     "Delivery Info", "Condition", "Rating", "Seller Performance"}

\* one entry of scrape_buybox_offers for an offer block without recognisable fields
OfferRecord(asin, marketplace_name) ==
    [k \in OfferKeys |->
        CASE k = "ASIN"        -> asin
          [] k = "Marketplace" -> marketplace_name
          [] k = "Discount %"  -> "NO %"
          [] OTHER             -> "N/A"]

Offers(asin, marketplace_name, n) == [i \in 1..n |-> OfferRecord(asin, marketplace_name)]

VARIABLES
    route,                  \* which entry point is being served
    asin_input,             \* run_products_scraper: raw identifier text
    marketplace,            \* run_products_scraper: marketplace selector
    p_pc,                   \* run_products_scraper: position
    asin_list,              \* run_products_scraper: parsed tokens
    specific_marketplaces,  \* targets to try
    p_i,                    \* number of tokens of asin_list already processed
    mp_i,                   \* number of targets the for loop has visited
    marketplace_name,       \* loop variable of the target loop
    data,                   \* [some |-> FALSE] for None, else [some |-> TRUE, rec |-> r]
    retries,
    asin_found,
    all_main,
    all_buybox,
    products_workbook,      \* [written |-> FALSE] or the two sheets
    attempt_log,            \* history: scrape attempts made for the current token
    offers_fetch,           \* how scrape_buybox_offers ended in the current attempt
    c_pc,                   \* run_competitor_scraper: position
    have_creds,             \* email and password supplied or in the environment
    c_asin_input,           \* run_competitor_scraper: raw identifier text
    marketplace_input_raw,  \* run_competitor_scraper: marketplace selector
    c_asin_list,            \* run_competitor_scraper: parsed tokens
    marketplace_value,      \* domain selected in the marketplace dropdown
    driver,                 \* "none", "open" or "quit"
    c_idx,                  \* number of tokens of c_asin_list already processed
    competitor_results,
    competitors_workbook,   \* [written |-> FALSE] or the Competitors sheet
    c_fail_at,              \* history: the step whose exception left the function
    c_searched,             \* history: tokens typed into the search field
    c_skipped,              \* history: indexes of the tokens skipped by "continue"
    c_last,                 \* history: what the latest step of the loop did
    page_owner,             \* index of the token whose result cards the page shows, 0 for none
    a_pc,                   \* app.run_competitor: position
    seed_asins,
    asin_union,
    search_map,
    annotated,              \* Products / OtherSellers frames with Search_ASIN attached
    ad_sheets,              \* the identifier column of the two ad-report sheets
    ad_list,                \* result of extract_unique_asins_from_ad_report
    ad_pc,                  \* app.run_adreport: position
    req_pc,                 \* concurrent /run/competitor requests: position of each
    req_profile,            \* profile directory each request's browser runs on
    norm_x,                 \* _norm_asin: the argument of the first call
    norm_ret,               \* _norm_asin: the values returned so far
    h_pc,                   \* reveal loop (lines 567-594): position
    h_total,                \* reveal loop: cards the page will show once all are loaded
    page_count,             \* reveal loop: cards the page shows now
    prev_count,
    stall_loops,
    w_pc,                   \* _wait_for_competitor_results: position
    last_count,
    stable_checks,
    w_elapsed,              \* _wait_for_competitor_results: polls made so far
    w_window,               \* history: what the most recent polls saw
    w_page                  \* the page at the most recent poll

pvars == <<asin_input, marketplace, p_pc, asin_list, specific_marketplaces, p_i, mp_i,
           marketplace_name, data, retries, asin_found, all_main, all_buybox,
           products_workbook, attempt_log, offers_fetch>>

cvars == <<c_pc, have_creds, c_asin_input, marketplace_input_raw, c_asin_list,
           marketplace_value, driver, c_idx, competitor_results, competitors_workbook,
           c_fail_at, c_searched, c_skipped, c_last, page_owner>>

avars == <<a_pc, seed_asins, asin_union, search_map, annotated>>

rvars == <<ad_sheets, ad_list, ad_pc>>

svars == <<req_pc, req_profile>>
nvars == <<norm_x, norm_ret>>
hvars == <<h_pc, h_total, page_count, prev_count, stall_loops>>
wvars == <<w_pc, last_count, stable_checks, w_elapsed, w_window, w_page>>
lvars == <<hvars, wvars>>

vars == <<route, pvars, cvars, avars, rvars, svars, nvars, lvars>>

NoData == [some |-> FALSE]
NotWritten == [written |-> FALSE]

(* ------------------ scraper_products: run_products_scraper ------------ *)
\* what one call of scrape_asin_from_url can do
ScrapeOutcomes == {"exception", "none", "record"}

\* how the call of scrape_buybox_offers at line 594 can end: not reached, the request
\* raised (lines 283-286), a bad response (lines 287-288), an exception in the
\* unguarded parsing (lines 289-343), or the parsed list returned
OffersOutcomes == {"not_called", "request_exception", "bad_response", "parse_exception",
                   "parsed"}

\* an exception leaving scrape_buybox_offers leaves scrape_asin_from_url as well
AttemptOutcome(outcome, fetch) ==
    IF outcome = "record" /\ fetch = "parse_exception" THEN "exception" ELSE outcome

\* data, sellers after the try/except around scrape_asin_from_url
ScrapeResult(outcome, asin, name, n) ==
    IF outcome = "record"
    THEN [data |-> [some |-> TRUE, rec |-> FoundRecord(asin, name)],
          sellers |-> Offers(asin, name, n)]
    ELSE [data |-> NoData, sellers |-> <<>>]

\* condition of the retry loop
RetryAllowedOffByOne(r, d) == r <= MAX_RETRIES /\ ~d.some
RetryAllowed(r, d) == r < MAX_RETRIES /\ ~d.some

\* rows after the "if not asin_found" block
RowsAfterTargetsAlways(found, rows, asin) == Append(rows, NotFoundRecord(asin))
RowsAfterTargets(found, rows, asin) ==
    IF ~found THEN Append(rows, NotFoundRecord(asin)) ELSE rows

\* final_columns of the Products sheet
ProductColumns ==
    <<"ASIN", "Marketplace", "Product Title", "Rating", "Total Reviews", "Social Bought",
      "Amazons_Choice_Text", "Deal_Badge_Text", "Best_Seller_Text", "Discount %",
      "Offer Price", "Price per Unit", "MRP", "Brand", "Model Number", "Country of Origin",
      "Customer Reviews", "Best Sellers Rank", "Manufacturer", "Packer", "Availability",
      "Delivery info", "Ships from", "Sold by", "Gift options">>

\* final_cols of the OtherSellers sheet
SellerColumns ==
    <<"ASIN", "Sold By", "Marketplace", "Offer Price", "Discount %", "MRP", "Ships From",
      "Delivery Info", "Condition", "Rating", "Seller Performance">>

\* DataFrame(rows).reindex(columns=cols, fill_value="N/A")
Reindex(rows, cols) ==
    [i \in DOMAIN rows |->
        [c \in Range(cols) |-> IF c \in DOMAIN rows[i] THEN rows[i][c] ELSE "N/A"]]

\* a sheet written from the records as they are, without reindex
SheetOfRecords(cols, rows) ==
    [columns |-> IF rows = <<>> THEN <<>> ELSE cols, rows |-> rows]
Sheet(cols, rows) == [columns |-> cols, rows |-> Reindex(rows, cols)]

\* lines 618-630: parse the tokens, resolve the target list
ParseAndResolve ==
    /\ p_pc = "call"
    /\ asin_list' = ParseAsinInput(asin_input)
    /\ specific_marketplaces' = SpecificMarketplaces(marketplace)
    /\ all_main' = <<>>
    /\ all_buybox' = <<>>
    /\ p_i' = 0
    /\ p_pc' = "for_asin"
    /\ UNCHANGED <<route, svars, nvars, lvars, cvars, avars, rvars, asin_input, marketplace, mp_i, marketplace_name, data, retries,
                   asin_found, products_workbook, attempt_log, offers_fetch>>

\* lines 632-634: next token of the outer loop
NextAsin ==
    /\ p_pc = "for_asin"
    /\ p_i < Len(asin_list)
    /\ asin_found' = FALSE
    /\ mp_i' = 0
    /\ attempt_log' = <<>>
    /\ p_pc' = "for_mp"
    /\ UNCHANGED <<route, svars, nvars, lvars, cvars, avars, rvars, asin_input, marketplace, asin_list, specific_marketplaces, p_i,
                   marketplace_name, data, retries, all_main, all_buybox, products_workbook,
                   offers_fetch>>

\* lines 636-639: the whole body of the target loop
ForMarketplace ==
    /\ p_pc = "for_mp"
    /\ mp_i < Len(specific_marketplaces)
    /\ mp_i' = mp_i + 1
    /\ marketplace_name' = specific_marketplaces[mp_i + 1][1]
    /\ data' = NoData
    /\ retries' = 0
    /\ p_pc' = IF mp_i + 1 = Len(specific_marketplaces) THEN "while" ELSE "for_mp"
    /\ UNCHANGED <<route, svars, nvars, lvars, cvars, avars, rvars, asin_input, marketplace, asin_list, specific_marketplaces, p_i,
                   asin_found, all_main, all_buybox, products_workbook, attempt_log, offers_fetch>>

\* lines 640-661: one iteration of the retry loop
WhileAttempt ==
    /\ p_pc = "while"
    /\ RetryAllowed(retries, data)
    /\ \E outcome \in ScrapeOutcomes, fetch \in OffersOutcomes, n \in 0..MaxOffers :
         LET asin == asin_list[p_i + 1]
             res  == ScrapeResult(AttemptOutcome(outcome, fetch), asin, marketplace_name, n)
         IN  /\ outcome # "record" => fetch = "not_called"
             /\ outcome = "record" => fetch # "not_called"
             /\ fetch # "parsed" => n = 0
             /\ offers_fetch' = fetch
             /\ data' = res.data
             /\ attempt_log' = Append(attempt_log,
                                      [mp |-> marketplace_name, ok |-> res.data.some])
             /\ IF res.data.some
                THEN /\ all_main' = Append(all_main, res.data.rec)
                     /\ all_buybox' = all_buybox \o res.sellers
                     /\ asin_found' = TRUE
                     /\ retries' = retries
                     /\ p_pc' = "after"
                ELSE /\ retries' = retries + 1
                     /\ UNCHANGED <<all_main, all_buybox, asin_found, p_pc>>
    /\ UNCHANGED <<route, svars, nvars, lvars, cvars, avars, rvars, asin_input, marketplace, asin_list, specific_marketplaces, p_i,
                   mp_i, marketplace_name, products_workbook>>

\* line 640: the retry loop's condition is false
WhileExit ==
    /\ p_pc = "while"
    /\ ~RetryAllowed(retries, data)
    /\ p_pc' = "after"
    /\ UNCHANGED <<route, svars, nvars, lvars, cvars, avars, rvars, asin_input, marketplace, asin_list, specific_marketplaces, p_i,
                   mp_i, marketplace_name, data, retries, asin_found, all_main, all_buybox,
                   products_workbook, attempt_log, offers_fetch>>

\* lines 663-676: the synthetic row, then on to the next token
AfterTargets ==
    /\ p_pc = "after"
    /\ all_main' = RowsAfterTargets(asin_found, all_main, asin_list[p_i + 1])
    /\ p_i' = p_i + 1
    /\ p_pc' = "for_asin"
    /\ offers_fetch' = "not_called"
    /\ UNCHANGED <<route, svars, nvars, lvars, cvars, avars, rvars, asin_input, marketplace, asin_list, specific_marketplaces, mp_i,
                   marketplace_name, data, retries, asin_found, all_buybox,
                   products_workbook, attempt_log>>

\* lines 678-721: write both sheets and return the path
WriteWorkbook ==
    /\ p_pc = "for_asin"
    /\ p_i = Len(asin_list)
    /\ products_workbook' = [written |-> TRUE,
                             Products |-> Sheet(ProductColumns, all_main),
                             OtherSellers |-> Sheet(SellerColumns, all_buybox)]
    /\ p_pc' = "done"
    /\ UNCHANGED <<route, svars, nvars, lvars, cvars, avars, rvars, asin_input, marketplace, asin_list, specific_marketplaces, p_i,
                   mp_i, marketplace_name, data, retries, asin_found, all_main, all_buybox,
                   attempt_log, offers_fetch>>

\* no step of the per-identifier loop has been made
NoStep == [step |-> "none"]

\* the competitor scraper is not running
CompetitorIdle ==
    /\ c_pc = "idle"
    /\ have_creds = FALSE
    /\ c_asin_input = <<>>
    /\ marketplace_input_raw = <<>>
    /\ c_asin_list = <<>>
    /\ marketplace_value = [known |-> FALSE, text |-> <<>>]
    /\ driver = "none"
    /\ c_idx = 0
    /\ competitor_results = <<>>
    /\ competitors_workbook = NotWritten
    /\ c_fail_at = "none"
    /\ c_searched = <<>>
    /\ c_skipped = {}
    /\ c_last = NoStep
    /\ page_owner = 0

\* the /run/competitor route is not being served
PipelineIdle ==
    /\ a_pc = "idle"
    /\ seed_asins = <<>>
    /\ asin_union = <<>>
    /\ search_map = <<>>
    /\ annotated = [written |-> FALSE]

\* the /run/adreport route is not being served
AdReportIdle ==
    /\ ad_sheets = <<>>
    /\ ad_list = <<>>
    /\ ad_pc = "idle"

\* _norm_asin has not been called
NormIdle ==
    /\ norm_x = <<>>
    /\ norm_ret = <<>>

\* no page shown to the wait function or to the reveal loop
NoPage == [loading |-> FALSE, count |-> 0, has_asin |-> FALSE]

\* the reveal loop and _wait_for_competitor_results are not followed on their own
LoopsIdle ==
    /\ h_pc = "idle"
    /\ h_total = 0
    /\ page_count = 0
    /\ prev_count = -1
    /\ stall_loops = 0
    /\ w_pc = "idle"
    /\ last_count = -1
    /\ stable_checks = 0
    /\ w_elapsed = 0
    /\ w_window = <<>>
    /\ w_page = NoPage

\* no concurrent /run/competitor requests are being followed
ServerIdle ==
    /\ req_pc = <<>>
    /\ req_profile = <<>>

\* run_products_scraper called directly with the form's fields (app.run_products)
InitProducts ==
    /\ route = "products"
    /\ ServerIdle
    /\ NormIdle
    /\ LoopsIdle
    /\ AdReportIdle
    /\ CompetitorIdle
    /\ PipelineIdle
    /\ asin_input \in RawInputs
    /\ marketplace \in MarketplaceInputs
    /\ p_pc = "call"
    /\ asin_list = <<>>
    /\ specific_marketplaces = <<>>
    /\ p_i = 0
    /\ mp_i = 0
    /\ marketplace_name = ""
    /\ data = NoData
    /\ retries = 0
    /\ asin_found = FALSE
    /\ all_main = <<>>
    /\ all_buybox = <<>>
    /\ products_workbook = NotWritten
    /\ attempt_log = <<>>
    /\ offers_fetch = "not_called"

NextProducts ==
    \/ ParseAndResolve
    \/ NextAsin
    \/ ForMarketplace
    \/ WhileAttempt
    \/ WhileExit
    \/ AfterTargets
    \/ WriteWorkbook

SpecProducts == InitProducts /\ [][NextProducts]_vars

\* the loops are sequential code: a step that can be taken is taken
SpecProductsFair == SpecProducts /\ WF_vars(NextProducts)

(* ---------------- properties of run_products_scraper ------------------ *)
TargetNames == {specific_marketplaces[i][1] : i \in DOMAIN specific_marketplaces}

\* attempts on target `name` among the first n entries of the log
AttemptsOn(name, n) == Cardinality({i \in 1..n : attempt_log[i].mp = name})

TargetIndex(name) == CHOOSE i \in DOMAIN specific_marketplaces : specific_marketplaces[i][1] = name

IsNotFoundRow(r) == r["Marketplace"] = "N/A" /\ r["Product Title"] = "Not Found"

\* the log belongs to the token being fetched, or to the one just finished
LogIsCurrent == p_pc \in {"while", "after"} \/ (p_pc \in {"for_asin", "done"} /\ p_i > 0)

\* C1: for each identifier the targets are attempted in list order (a target is
\* attempted only after every earlier target was tried MAX_RETRIES times), the
\* emitted record is that of the first target that yields one, and no attempt
\* follows the attempt that obtained a record.
C1_FirstTargetInOrderWins ==
    LogIsCurrent =>
        /\ \A i \in DOMAIN attempt_log :
              \A j \in 1..(TargetIndex(attempt_log[i].mp) - 1) :
                 AttemptsOn(specific_marketplaces[j][1], i - 1) = MAX_RETRIES
        /\ \A i \in DOMAIN attempt_log : attempt_log[i].ok => i = Len(attempt_log)
        /\ (asin_found /\ attempt_log # <<>>) =>
              all_main[Len(all_main)]["Marketplace"] = attempt_log[Len(attempt_log)].mp

\* C2: for one identifier each target is attempted at most MAX_RETRIES times, and
\* the retry counter counts only the failed attempts on the target being tried
\* (it is zero when the first attempt on a target is made).
C2_RetriesBoundedPerTarget ==
    /\ \A t \in TargetNames : AttemptsOn(t, Len(attempt_log)) <= MAX_RETRIES
    /\ p_pc = "while" =>
          retries = Cardinality({i \in DOMAIN attempt_log :
                                   attempt_log[i].mp = marketplace_name /\ ~attempt_log[i].ok})

C2_Witness ==
    /\ p_pc = "after"
    /\ ~asin_found
    /\ AttemptsOn(marketplace_name, Len(attempt_log)) = MAX_RETRIES

\* C3: the NotFound row is appended for an identifier if and only if every target
\* of the target list was attempted MAX_RETRIES times and no attempt yielded a record.
C3_NotFoundIffAllTargetsExhausted ==
    (p_pc \in {"for_asin", "done"} /\ p_i > 0) =>
        (IsNotFoundRow(all_main[Len(all_main)])
           <=> /\ \A t \in TargetNames : AttemptsOn(t, Len(attempt_log)) = MAX_RETRIES
               /\ \A i \in DOMAIN attempt_log : ~attempt_log[i].ok)

RowsMatchTokens ==
    /\ Len(all_main) = Len(asin_list)
    /\ \A i \in DOMAIN asin_list : all_main[i]["ASIN"] = asin_list[i]

\* C4: whatever the scrape attempts do (exception, empty result, record), the run
\* terminates, and when it has returned there is exactly one Products row per input
\* token, in input order, and the workbook is written.
C4_AlwaysTerminatesWithOneRowPerToken ==
    /\ <>(p_pc = "done")
    /\ [](p_pc = "done" =>
            /\ RowsMatchTokens
            /\ products_workbook.written
            /\ Len(products_workbook.Products.rows) = Len(asin_list))

C4_Witness ==
    /\ p_pc = "done"
    /\ Len(all_main) = 2
    /\ ~IsNotFoundRow(all_main[1])
    /\ IsNotFoundRow(all_main[2])

(* --------------- scraper_competitor: run_competitor_scraper ----------- *)
\* marketplace_map
marketplace_map ==
    {  <<<<"i","n","d","i","a">>, "amazon.in">>,
       <<<<"i","n">>, "amazon.in">>,
       <<<<"u","s">>, "amazon.com">>,
       <<<<"u","s","a">>, "amazon.com">>,
       <<<<"a","m","e","r","i","c","a">>, "amazon.com">>,
       <<<<"u","k">>, "amazon.co.uk">>,
       <<<<"u","n","i","t","e","d"," ","k","i","n","g","d","o","m">>, "amazon.co.uk">>,
       <<<<"d","e">>, "amazon.de">>,
       <<<<"g","e","r","m","a","n","y">>, "amazon.de">>,
       <<<<"f","r">>, "amazon.fr">>,
       <<<<"f","r","a","n","c","e">>, "amazon.fr">>,
       <<<<"i","t">>, "amazon.it">>,
       <<<<"i","t","a","l","y">>, "amazon.it">>,
       <<<<"e","s">>, "amazon.es">>,
       <<<<"s","p","a","i","n">>, "amazon.es">>,
       <<<<"c","a">>, "amazon.ca">>,
       <<<<"c","a","n","a","d","a">>, "amazon.ca">>,
       <<<<"m","x">>, "amazon.com.mx">>,
       <<<<"m","e","x","i","c","o">>, "amazon.com.mx">>,
       <<<<"n","l">>, "amazon.nl">>,
       <<<<"n","e","t","h","e","r","l","a","n","d","s">>, "amazon.nl">>,
       <<<<"j","p">>, "amazon.co.jp">>,
       <<<<"j","a","p","a","n">>, "amazon.co.jp">>,
       <<<<"a","u">>, "amazon.com.au">>,
       <<<<"a","u","s","t","r","a","l","i","a">>, "amazon.com.au">>,
       <<<<"a","e">>, "amazon.ae">>,
       <<<<"u","a","e">>, "amazon.ae">>,
       <<<<"b","r">>, "amazon.com.br">>,
       <<<<"b","r","a","z","i","l">>, "amazon.com.br">>,
       <<<<"s","a">>, "amazon.sa">>,
       <<<<"s","a","u","d","i">>, "amazon.sa">> }

\* lines 362-363: the domain for an alias, else the stripped raw text
MarketplaceValue(raw) ==
    LET key == StrLower(StrStrip(raw))
    IN  IF \E a \in marketplace_map : a[1] = key
        THEN [known |-> TRUE, domain |-> (CHOOSE a \in marketplace_map : a[1] = key)[2]]
        ELSE [known |-> FALSE, text |-> StrStrip(raw)]

\* "if not marketplace_value"
MarketplaceMissing(v) == ~v.known /\ v.text = <<>>

CompetitorColumns == <<"Search_ASIN", "Competitor_ASIN", "Title", "Marketplace", "Product_Link">>

\* key order of the dict built for each card (lines 646-652)
RecordColumns == <<"Search_ASIN", "Competitor_ASIN", "Title", "Marketplace", "Product_Link">>

\* competitor identifiers a result card may show; <<>> when none can be extracted
CardPool == {TokComp, <<>>}

\* the dict appended for one card (lines 646-652)
CompetitorRecord(asin, competitor_asin) ==
    [Search_ASIN |-> asin, Competitor_ASIN |-> competitor_asin, Title |-> "Title",
     Marketplace |-> "", Product_Link |-> "link"]

\* lines 663-670: the sheet written for the accumulated records
CompetitorsSheetNoHeader(results) ==
    [written |-> TRUE, columns |-> IF results # <<>> THEN RecordColumns ELSE <<>>,
     rows |-> results]
CompetitorsSheet(results) ==
    IF results # <<>>
    THEN [written |-> TRUE, columns |-> RecordColumns, rows |-> results]
    ELSE [written |-> TRUE, columns |-> CompetitorColumns, rows |-> <<>>]

\* the browser session after the login / marketplace-selection handlers (436, 440, 463)
DriverLeftOpen == "open"
DriverAfterSessionFailure == "quit"

\* where the loop goes after the token with index idx (1-based) is finished
AfterIteration(done) == IF done < Len(c_asin_list) THEN "reset" ELSE "save"

Raise(at) == c_pc' = "raised" /\ c_fail_at' = at

HardReloadOutcomes == {"ok", "raise"}

\* a loader that accepts missing credentials
CredsNeverMissing(have) == FALSE
\* _load_h10_creds, lines 73-75: raises unless both values are available
CredsNotFound(have) == ~have

\* lines 359-365: credentials, token list, marketplace value
Startup ==
    /\ c_pc = "call"
    /\ IF CredsNotFound(have_creds)
       THEN /\ Raise("creds")
            /\ UNCHANGED <<c_asin_list, marketplace_value>>
       ELSE /\ c_asin_list' = ParseAsinInput(c_asin_input)
            /\ marketplace_value' = MarketplaceValue(marketplace_input_raw)
            /\ IF MarketplaceMissing(MarketplaceValue(marketplace_input_raw))
               THEN Raise("marketplace_required")
               ELSE c_pc' = "driver" /\ UNCHANGED c_fail_at
    /\ UNCHANGED <<route, svars, nvars, lvars, pvars, avars, rvars, have_creds, c_asin_input, marketplace_input_raw,
                   driver, c_idx, competitor_results, competitors_workbook, c_searched,
                   c_skipped,
                   c_last, page_owner>>

\* lines 367-386: the browser session is created
CreateDriver ==
    /\ c_pc = "driver"
    /\ driver' = "open"
    /\ c_pc' = "signin"
    /\ UNCHANGED <<route, svars, nvars, lvars, pvars, avars, rvars, have_creds, c_asin_input, marketplace_input_raw,
                   c_asin_list, marketplace_value, c_idx, competitor_results,
                   competitors_workbook, c_fail_at, c_searched, c_skipped,
                   c_last, page_owner>>

\* line 389: the sign-in page is requested outside any try block
OpenSignin ==
    /\ c_pc = "signin"
    /\ \E ok \in BOOLEAN :
         IF ok THEN c_pc' = "login" /\ UNCHANGED c_fail_at ELSE Raise("navigate")
    /\ UNCHANGED <<route, svars, nvars, lvars, pvars, avars, rvars, have_creds, c_asin_input, marketplace_input_raw,
                   c_asin_list, marketplace_value, driver, c_idx, competitor_results,
                   competitors_workbook, c_searched, c_skipped,
                   c_last, page_owner>>

\* lines 390-441: login; both handlers quit the driver and re-raise
Login ==
    /\ c_pc = "login"
    /\ \E ok \in BOOLEAN :
         IF ok
         THEN c_pc' = "open_cerebro" /\ UNCHANGED <<c_fail_at, driver>>
         ELSE Raise("login") /\ driver' = DriverAfterSessionFailure
    /\ UNCHANGED <<route, svars, nvars, lvars, pvars, avars, rvars, have_creds, c_asin_input, marketplace_input_raw,
                   c_asin_list, marketplace_value, c_idx, competitor_results,
                   competitors_workbook, c_searched, c_skipped,
                   c_last, page_owner>>

\* lines 443-453: the tool page is opened (only a page-load timeout is handled)
OpenCerebro ==
    /\ c_pc = "open_cerebro"
    /\ competitor_results' = <<>>
    /\ \E ok \in BOOLEAN :
         IF ok THEN c_pc' = "select" /\ UNCHANGED c_fail_at ELSE Raise("open_cerebro")
    /\ UNCHANGED <<route, svars, nvars, lvars, pvars, avars, rvars, have_creds, c_asin_input, marketplace_input_raw,
                   c_asin_list, marketplace_value, driver, c_idx, competitors_workbook,
                   c_searched, c_skipped,
                   c_last, page_owner>>

\* lines 455-464: initial marketplace selection; the handler quits and re-raises
SelectMarketplace ==
    /\ c_pc = "select"
    /\ \E ok \in BOOLEAN :
         IF ok
         THEN c_pc' = AfterIteration(0) /\ UNCHANGED <<c_fail_at, driver>>
         ELSE Raise("select") /\ driver' = DriverAfterSessionFailure
    /\ UNCHANGED <<route, svars, nvars, lvars, pvars, avars, rvars, have_creds, c_asin_input, marketplace_input_raw,
                   c_asin_list, marketplace_value, c_idx, competitor_results,
                   competitors_workbook, c_searched, c_skipped,
                   c_last, page_owner>>

CurrentAsin == c_asin_list[c_idx + 1]

\* "continue": the token is dropped and the loop goes on
Skip ==
    /\ c_idx' = c_idx + 1
    /\ c_skipped' = c_skipped \cup {c_idx + 1}
    /\ c_pc' = AfterIteration(c_idx + 1)
    /\ UNCHANGED c_fail_at

\* a loop that goes on whatever the two resets did
ResetAlwaysProceeds(soft_ok, hr) == TRUE
\* lines 474-477: the iteration goes on after a soft reset that returned True or a
\* hard reload that returned
ResetProceeds(soft_ok, hr) == soft_ok \/ hr = "ok"

\* which reset left the page ready for the identifier
ResetKind(soft_ok, hr) == IF soft_ok THEN "soft" ELSE IF hr = "ok" THEN "hard" ELSE "none"

\* the search whose result cards the page shows when the wait is over: the current
\* one, or still the one whose cards were on the page before
CardsShown(stale, shown_before, current) == IF stale THEN shown_before ELSE current

\* lines 473-477: soft reset, and the hard reload when it fails (not in a try block)
Reset ==
    /\ c_pc = "reset"
    /\ \E soft_ok \in BOOLEAN, hr \in HardReloadOutcomes, gone \in BOOLEAN :
         /\ soft_ok => hr = "ok"
         /\ (~soft_ok \/ page_owner = 0) => gone
         /\ c_last' = [step |-> "reset", clean |-> ResetKind(soft_ok, hr)]
         /\ page_owner' = IF gone /\ (soft_ok \/ hr = "ok") THEN 0 ELSE page_owner
         /\ IF ResetProceeds(soft_ok, hr)
            THEN c_pc' = "locate" /\ UNCHANGED c_fail_at
            ELSE Raise("reset")
    /\ UNCHANGED <<route, svars, nvars, lvars, pvars, avars, rvars, have_creds, c_asin_input, marketplace_input_raw,
                   c_asin_list, marketplace_value, driver, c_idx, competitor_results,
                   competitors_workbook, c_searched, c_skipped>>

\* lines 479-493: the input is located (uncaught wait) and the token entered
LocateAndEnter ==
    /\ c_pc = "locate"
    /\ \E ok \in BOOLEAN :
         IF ok
         THEN /\ c_searched' = Append(c_searched, CurrentAsin)
              /\ c_last' = [step |-> "enter",
                            clean |-> IF c_last.step = "reset" THEN c_last.clean ELSE "none"]
              /\ c_pc' = "submit"
              /\ UNCHANGED c_fail_at
         ELSE Raise("locate") /\ UNCHANGED <<c_searched, c_last>>
    /\ UNCHANGED <<route, svars, nvars, lvars, pvars, avars, rvars, have_creds, c_asin_input, marketplace_input_raw,
                   c_asin_list, marketplace_value, driver, c_idx, competitor_results,
                   competitors_workbook, c_skipped, page_owner>>

\* lines 495-522: click the search control; on TimeoutException one hard reload
\* (outside the inner try) and one retry, whose failure skips the token
Submit ==
    /\ c_pc = "submit"
    /\ \E first \in {"clicked", "timeout", "error"}, hr \in HardReloadOutcomes,
          retry_ok \in BOOLEAN :
         /\ first # "timeout" => (hr = "ok" /\ retry_ok)
         /\ hr = "raise" => retry_ok
         /\ c_last' = [step |-> "submit", first |-> first,
                       reloads |-> IF first = "timeout" THEN 1 ELSE 0,
                       reload |-> IF first = "timeout" THEN hr ELSE "none",
                       retry_ok |-> first = "timeout" /\ hr = "ok" /\ retry_ok]
         /\ page_owner' = IF first = "timeout" /\ hr = "ok" THEN 0 ELSE page_owner
         /\ CASE first = "clicked" ->
                   c_pc' = "await" /\ UNCHANGED <<c_fail_at, c_idx, c_skipped, c_searched>>
              [] first = "error" ->
                   Raise("submit") /\ UNCHANGED <<c_idx, c_skipped, c_searched>>
              [] first = "timeout" /\ hr = "raise" ->
                   Raise("submit") /\ UNCHANGED <<c_idx, c_skipped, c_searched>>
              [] first = "timeout" /\ hr = "ok" /\ retry_ok ->
                   /\ c_searched' = Append(c_searched, CurrentAsin)
                   /\ c_pc' = "await"
                   /\ UNCHANGED <<c_fail_at, c_idx, c_skipped>>
              [] first = "timeout" /\ hr = "ok" /\ ~retry_ok ->
                   Skip /\ UNCHANGED c_searched
    /\ UNCHANGED <<route, svars, nvars, lvars, pvars, avars, rvars, have_creds, c_asin_input, marketplace_input_raw,
                   c_asin_list, marketplace_value, driver, competitor_results,
                   competitors_workbook>>

\* lines 524-560: wait for the results; on TimeoutException proceed when the page
\* shows the token, else one hard reload (outside the inner try) and one retry
AwaitResults ==
    /\ c_pc = "await"
    /\ \E w \in {"loaded", "timeout", "error"}, body_has_current \in BOOLEAN,
          hr \in HardReloadOutcomes, retry_ok \in BOOLEAN, stale \in BOOLEAN :
         /\ w # "timeout" => (body_has_current /\ hr = "ok" /\ retry_ok)
         /\ body_has_current => (hr = "ok" /\ retry_ok)
         /\ hr = "raise" => retry_ok
         /\ stale => (w # "error" /\ body_has_current)
         /\ (w = "loaded" /\ stale) => page_owner # 0
         /\ c_last' = [step |-> "await", w |-> w, body_has_current |-> body_has_current,
                       reloads |-> IF w = "timeout" /\ ~body_has_current THEN 1 ELSE 0,
                       reload |-> IF w = "timeout" /\ ~body_has_current THEN hr ELSE "none",
                       retry_ok |-> w = "timeout" /\ ~body_has_current /\ hr = "ok" /\ retry_ok]
         /\ CASE w = "loaded" ->
                   /\ c_pc' = "harvest"
                   /\ page_owner' = CardsShown(stale, page_owner, c_idx + 1)
                   /\ UNCHANGED <<c_fail_at, c_idx, c_skipped, c_searched>>
              [] w = "error" ->
                   Raise("await") /\ UNCHANGED <<c_idx, c_skipped, c_searched, page_owner>>
              [] w = "timeout" /\ body_has_current ->
                   /\ c_pc' = "harvest"
                   /\ page_owner' = CardsShown(stale, page_owner, c_idx + 1)
                   /\ UNCHANGED <<c_fail_at, c_idx, c_skipped, c_searched>>
              [] w = "timeout" /\ ~body_has_current /\ hr = "raise" ->
                   Raise("await") /\ UNCHANGED <<c_idx, c_skipped, c_searched, page_owner>>
              [] w = "timeout" /\ ~body_has_current /\ hr = "ok" /\ retry_ok ->
                   /\ c_searched' = Append(c_searched, CurrentAsin)
                   /\ c_pc' = "harvest"
                   /\ page_owner' = c_idx + 1
                   /\ UNCHANGED <<c_fail_at, c_idx, c_skipped>>
              [] w = "timeout" /\ ~body_has_current /\ hr = "ok" /\ ~retry_ok ->
                   Skip /\ page_owner' = 0 /\ UNCHANGED c_searched
    /\ UNCHANGED <<route, svars, nvars, lvars, pvars, avars, rvars, have_creds, c_asin_input, marketplace_input_raw,
                   c_asin_list, marketplace_value, driver, competitor_results,
                   competitors_workbook>>

\* lines 573-579: the reveal loop polls again while the page shows no card
HarvestNoCards ==
    /\ c_pc = "harvest"
    /\ UNCHANGED vars

\* lines 562-654: reveal the cards and append one record per card
Harvest ==
    /\ c_pc = "harvest"
    /\ \E cards \in SeqsUpTo(CardPool, MaxCards) :
         /\ competitor_results' = competitor_results \o
               [i \in DOMAIN cards |-> CompetitorRecord(CurrentAsin, cards[i])]
         /\ c_last' = [step |-> "harvest", n |-> Len(cards),
                       cards_of |-> IF page_owner = 0 THEN c_idx + 1 ELSE page_owner]
    /\ page_owner' = IF page_owner = 0 THEN c_idx + 1 ELSE page_owner
    /\ c_pc' = "postreset"
    /\ UNCHANGED <<route, svars, nvars, lvars, pvars, avars, rvars, have_creds, c_asin_input, marketplace_input_raw,
                   c_asin_list, marketplace_value, driver, c_idx, competitors_workbook,
                   c_fail_at, c_searched, c_skipped>>

\* lines 562-654: a driver call outside the handlers raises (stale card, dead session)
HarvestError ==
    /\ c_pc = "harvest"
    /\ Raise("harvest")
    /\ c_last' = [step |-> "harvest_error"]
    /\ UNCHANGED <<route, svars, nvars, lvars, pvars, avars, rvars, have_creds, c_asin_input, marketplace_input_raw,
                   c_asin_list, marketplace_value, driver, c_idx, competitor_results,
                   competitors_workbook, c_searched, c_skipped,
                   page_owner>>

\* line 657: soft reset whose result is ignored, then the next token
PostReset ==
    /\ c_pc = "postreset"
    /\ c_idx' = c_idx + 1
    /\ c_pc' = AfterIteration(c_idx + 1)
    /\ c_last' = [step |-> "postreset"]
    /\ \E gone \in BOOLEAN : page_owner' = IF gone THEN 0 ELSE page_owner
    /\ UNCHANGED <<route, svars, nvars, lvars, pvars, avars, rvars, have_creds, c_asin_input, marketplace_input_raw,
                   c_asin_list, marketplace_value, driver, competitor_results,
                   competitors_workbook, c_fail_at, c_searched, c_skipped>>

\* lines 659-674: write the Competitors sheet, quit the driver, return the path
SaveResults ==
    /\ c_pc = "save"
    /\ competitors_workbook' = CompetitorsSheet(competitor_results)
    /\ driver' = "quit"
    /\ c_pc' = "returned"
    /\ c_last' = [step |-> "save"]
    /\ page_owner' = 0
    /\ UNCHANGED <<route, svars, nvars, lvars, pvars, avars, rvars, have_creds, c_asin_input, marketplace_input_raw,
                   c_asin_list, marketplace_value, c_idx, competitor_results, c_fail_at,
                   c_searched, c_skipped>>

\* the products scraper is not running
ProductsIdle ==
    /\ asin_input = <<>>
    /\ marketplace = <<>>
    /\ p_pc = "idle"
    /\ asin_list = <<>>
    /\ specific_marketplaces = <<>>
    /\ p_i = 0
    /\ mp_i = 0
    /\ marketplace_name = ""
    /\ data = NoData
    /\ retries = 0
    /\ asin_found = FALSE
    /\ all_main = <<>>
    /\ all_buybox = <<>>
    /\ products_workbook = NotWritten
    /\ attempt_log = <<>>
    /\ offers_fetch = "not_called"

\* run_competitor_scraper called with any arguments
InitCompetitor ==
    /\ route = "competitor_scraper"
    /\ ServerIdle
    /\ NormIdle
    /\ LoopsIdle
    /\ AdReportIdle
    /\ ProductsIdle
    /\ PipelineIdle
    /\ c_pc = "call"
    /\ have_creds \in BOOLEAN
    /\ c_asin_input \in SearchInputs
    /\ marketplace_input_raw \in MarketplaceInputs
    /\ c_asin_list = <<>>
    /\ marketplace_value = [known |-> FALSE, text |-> <<>>]
    /\ driver = "none"
    /\ c_idx = 0
    /\ competitor_results = <<>>
    /\ competitors_workbook = NotWritten
    /\ c_fail_at = "none"
    /\ c_searched = <<>>
    /\ c_skipped = {}
    /\ c_last = NoStep
    /\ page_owner = 0

NextCompetitor ==
    \/ Startup
    \/ CreateDriver
    \/ OpenSignin
    \/ Login
    \/ OpenCerebro
    \/ SelectMarketplace
    \/ Reset
    \/ LocateAndEnter
    \/ Submit
    \/ AwaitResults
    \/ HarvestNoCards
    \/ Harvest
    \/ HarvestError
    \/ PostReset
    \/ SaveResults

SpecCompetitor == InitCompetitor /\ [][NextCompetitor]_vars

(* --------------- properties of run_competitor_scraper ----------------- *)
\* the steps of the per-identifier loop
LoopSteps == {"reset", "locate", "submit", "await", "harvest"}

\* C5: a failure while processing one identifier (in Reset, Submit, AwaitResults or
\* Harvest) never aborts the run: no exception of a loop step leaves the function,
\* and a skipped identifier leaves the accumulated records unchanged.
C5_IdentifierFailureIsIsolated ==
    /\ [](c_pc = "raised" => c_fail_at \notin LoopSteps)
    /\ [][c_skipped' # c_skipped => competitor_results' = competitor_results]_vars

\* C6: when the run has returned, every identifier was processed, the browser
\* session is closed and the Competitors sheet holds the accumulated records under
\* the five fixed columns (a header-only sheet when there are none).
C6_ReturnWritesAccumulatedRecords ==
    c_pc = "returned" =>
        /\ c_idx = Len(c_asin_list)
        /\ driver = "quit"
        /\ competitors_workbook.written
        /\ competitors_workbook.rows = competitor_results
        /\ competitors_workbook.columns = CompetitorColumns

C6_Witness ==
    /\ c_pc = "returned"
    /\ c_skipped # {}
    /\ competitor_results = <<>>
    /\ Len(c_asin_list) = 2

NaN == <<"NaN">>

TokPadded == <<" ","b","0","a","b","c","d","e","f","g","h"," ">>
TokBlank  == <<" ">>

\* cell values of the column 'ASIN (Informational only)'
CellPool == {TokSeed, TokPadded, TokShort, TokBlank, NaN}

\* lines 296-304: dropna, astype(str), strip, upper, and the non-empty values kept
CleanColumn(cells) ==
    LET IsValue(c) == c # NaN
        present == SelectSeq(cells, IsValue)
        cleaned == [i \in DOMAIN present |-> StrUpper(StrStrip(present[i]))]
        NonEmpty(c) == c # <<>>
    IN  SelectSeq(cleaned, NonEmpty)

RECURSIVE DedupeFrom(_, _)
\* lines 306-312: first occurrences, in order
DedupeFrom(values, unique) ==
    IF values = <<>> THEN unique
    ELSE DedupeFrom(Tail(values),
                    IF Head(values) \in Range(unique) THEN unique
                    ELSE Append(unique, Head(values)))

\* no deduplication: every value kept
KeepAll(values) == values

Dedupe(values) == DedupeFrom(values, <<>>)

\* extract_unique_asins_from_ad_report over the two sheets that are present
ExtractUniqueAsins(sheets) ==
    Dedupe(CleanColumn(sheets[1]) \o CleanColumn(sheets[2]))

\* lines 639-657: extract the list; stop when it is empty, else call the products
\* scraper with the tokens joined by spaces
AdReportExtract ==
    /\ ad_pc = "call"
    /\ ad_list' = ExtractUniqueAsins(ad_sheets)
    /\ IF ExtractUniqueAsins(ad_sheets) = <<>>
       THEN /\ ad_pc' = "no_asins"
            /\ UNCHANGED <<asin_input, p_pc>>
       ELSE /\ ad_pc' = "scraping"
            /\ asin_input' = JoinWith(<<" ">>, ExtractUniqueAsins(ad_sheets))
            /\ p_pc' = "call"
    /\ UNCHANGED <<route, svars, nvars, lvars, cvars, avars, ad_sheets, marketplace, asin_list,
                   specific_marketplaces, p_i, mp_i, marketplace_name, data, retries,
                   asin_found, all_main, all_buybox, products_workbook, attempt_log, offers_fetch>>

\* lines 659-674: the preview is built from the returned workbook
AdReportDone ==
    /\ ad_pc = "scraping"
    /\ p_pc = "done"
    /\ ad_pc' = "done"
    /\ UNCHANGED <<route, svars, nvars, lvars, pvars, cvars, avars, ad_sheets, ad_list>>

\* /run/adreport with a report of two sheets (a sheet that is absent or lacks the
\* column contributes no cell, like an empty one)
InitAdReport ==
    /\ route = "adreport"
    /\ ServerIdle
    /\ NormIdle
    /\ LoopsIdle
    /\ CompetitorIdle
    /\ PipelineIdle
    /\ asin_input = <<>>
    /\ marketplace \in MarketplaceInputs
    /\ p_pc = "idle"
    /\ asin_list = <<>>
    /\ specific_marketplaces = <<>>
    /\ p_i = 0
    /\ mp_i = 0
    /\ marketplace_name = ""
    /\ data = NoData
    /\ retries = 0
    /\ asin_found = FALSE
    /\ all_main = <<>>
    /\ all_buybox = <<>>
    /\ products_workbook = NotWritten
    /\ attempt_log = <<>>
    /\ offers_fetch = "not_called"
    /\ ad_sheets \in {sh \in SeqsUpTo(CellPool, MaxCells) \X SeqsUpTo(CellPool, MaxCells) :
                         Len(sh[1]) + Len(sh[2]) <= MaxCells}
    /\ ad_list = <<>>
    /\ ad_pc = "call"

NextAdReport ==
    \/ AdReportExtract
    \/ AdReportDone
    \/ NextProducts

SpecAdReport == InitAdReport /\ [][NextAdReport]_vars

(* --------------------- app: competitor pipeline ----------------------- *)
\* strip and upper without the pattern test
StripUpperOnly(x) == StrUpper(StrStrip(x))

\* _norm_asin
NormAsin(x) ==
    IF x = NaN THEN <<>>
    ELSE LET u == StrUpper(StrStrip(x))
         IN  IF FullMatchAsin(u) THEN u ELSE <<>>

\* pd.read_excel on a cell written by to_excel: an empty text cell is read as NaN
ReadCell(v) == IF v = <<>> THEN NaN ELSE v

\* comp_df: the Search_ASIN and Competitor_ASIN columns read from the Competitors sheet
ReadCompetitors(wb) ==
    [i \in DOMAIN wb.rows |->
        [Search_ASIN |-> ReadCell(wb.rows[i].Search_ASIN),
         Competitor_ASIN |-> ReadCell(wb.rows[i].Competitor_ASIN)]]

\* lines 486-487: seeds upper-cased and filtered by the pattern
SeedAsins(raw) ==
    LET toks == ParseAsinInput(raw)
        up   == [i \in DOMAIN toks |-> StrUpper(toks[i])]
    IN  SelectSeq(up, FullMatchAsin)

\* lines 493-497: competitor identifiers of the sheet that match the pattern
CompAsins(comp_df) ==
    LET HasValue(r) == r.Competitor_ASIN # NaN
        present == SelectSeq(comp_df, HasValue)
        cleaned == [i \in DOMAIN present |-> StrStrip(StrUpper(present[i].Competitor_ASIN))]
    IN  SelectSeq(cleaned, FullMatchAsin)

\* code-point order of the characters an identifier can hold
Alphabet == <<"0","1","2","3","4","5","6","7","8","9">> \o UpperChars

CharRank(c) == CHOOSE i \in DOMAIN Alphabet : Alphabet[i] = c

RECURSIVE StrLess(_, _)
\* a < b on str
StrLess(a, b) ==
    IF b = <<>> THEN FALSE
    ELSE IF a = <<>> THEN TRUE
    ELSE IF Head(a) = Head(b) THEN StrLess(Tail(a), Tail(b))
    ELSE CharRank(Head(a)) < CharRank(Head(b))

RECURSIVE Sorted(_)
\* sorted(set)
Sorted(S) ==
    IF S = {} THEN <<>>
    ELSE LET least == CHOOSE x \in S : \A y \in S \ {x} : StrLess(x, y)
         IN  <<least>> \o Sorted(S \ {least})

\* line 498: sorted(set(seed_asins) | set(comp_asins))
AsinUnion(seeds, comps) == Sorted(Range(seeds) \cup Range(comps))

\* _build_search_map_from_comp_df: dict(zip(...)) keeps the last row of each key
BuildSearchMap(comp_df) ==
    LET normed == [i \in DOMAIN comp_df |->
                     [Competitor_ASIN |-> NormAsin(comp_df[i].Competitor_ASIN),
                      Search_ASIN |-> NormAsin(comp_df[i].Search_ASIN)]]
        Both(r) == r.Competitor_ASIN # <<>> /\ r.Search_ASIN # <<>>
        kept == SelectSeq(normed, Both)
        keys == {kept[i].Competitor_ASIN : i \in DOMAIN kept}
        Last(k) == CHOOSE i \in DOMAIN kept :
                      /\ kept[i].Competitor_ASIN = k
                      /\ \A j \in DOMAIN kept : kept[j].Competitor_ASIN = k => j <= i
    IN  [k \in keys |-> kept[Last(k)].Search_ASIN]

\* the Search_ASIN value _attach computes for one row (lines 109-114)
SearchAsinOf(asin, smap, seeds) ==
    LET a == NormAsin(asin)
    IN  IF a \in DOMAIN smap /\ smap[a] # <<>> THEN smap[a]
        ELSE IF a \in Range(seeds) THEN a
        ELSE NaN

\* _attach: the frame with the Search_ASIN column added
Attach(rows, smap, seeds) ==
    [i \in DOMAIN rows |->
        [c \in DOMAIN rows[i] \cup {"Search_ASIN"} |->
            IF c = "Search_ASIN" THEN SearchAsinOf(rows[i]["ASIN"], smap, seeds)
            ELSE rows[i][c]]]

\* the rows of a frame whose normalised Search_ASIN is the seed (lines 181, 188, 146)
RowsOfSeed(rows, seed) ==
    LET Mine(r) == NormAsin(r["Search_ASIN"]) = seed
    IN  SelectSeq(rows, Mine)

\* marketplace field of the form after .strip(); an empty field is rejected (line 461)
PipelineMarketplaces == {StrStrip(m) : m \in MarketplaceInputs} \ {<<>>}

\* seed tokens typed into the form
SeedPool == {TokSeed, TokComp, TokShort}

SeedInputs == {JoinWith(<<" ">>, toks) : toks \in SeqsUpTo(SeedPool, MaxTokens)} \ {<<>>}

\* lines 596-602: an exception of run_competitor_scraper ends the pipeline
PipelineError ==
    /\ a_pc = "competitor"
    /\ c_pc = "raised"
    /\ a_pc' = "error"
    /\ UNCHANGED <<route, svars, nvars, lvars, pvars, cvars, rvars, seed_asins, asin_union, search_map,
                   annotated>>

\* lines 486-523: seeds, union, and the call of run_products_scraper on the union
BuildUnion ==
    /\ a_pc = "competitor"
    /\ c_pc = "returned"
    /\ LET seeds == SeedAsins(c_asin_input)
           union == AsinUnion(seeds, CompAsins(ReadCompetitors(competitors_workbook)))
       IN  /\ seed_asins' = seeds
           /\ asin_union' = union
           /\ IF "Competitor_ASIN" \notin Range(competitors_workbook.columns)
              THEN a_pc' = "error" /\ UNCHANGED <<asin_input, marketplace, p_pc>>
              ELSE IF union = <<>>
              THEN a_pc' = "no_asins" /\ UNCHANGED <<asin_input, marketplace, p_pc>>
              ELSE /\ a_pc' = "amazon"
                   /\ asin_input' = JoinWith(<<" ">>, union)
                   /\ marketplace' = marketplace_input_raw
                   /\ p_pc' = "call"
    /\ UNCHANGED <<route, svars, nvars, lvars, cvars, rvars, search_map, annotated, asin_list,
                   specific_marketplaces, p_i, mp_i, marketplace_name, data, retries,
                   asin_found, all_main, all_buybox, products_workbook, attempt_log, offers_fetch>>

\* lines 529-550: the search map and the two by-ASIN workbooks
Annotate ==
    /\ a_pc = "amazon"
    /\ p_pc = "done"
    /\ LET comp_df == ReadCompetitors(competitors_workbook)
           smap == BuildSearchMap(comp_df)
           df_products == Attach(products_workbook.Products.rows, smap, seed_asins)
           df_sellers == Attach(products_workbook.OtherSellers.rows, smap, seed_asins)
       IN  /\ search_map' = smap
           /\ annotated' =
                [written |-> TRUE,
                 products |-> df_products,
                 sellers |-> df_sellers,
                 competitors_by_asin |->
                     [s \in Range(seed_asins) |-> RowsOfSeed(comp_df, s)],
                 products_by_asin |->
                     [s \in Range(seed_asins) |-> RowsOfSeed(df_products, s)],
                 sellers_by_asin |->
                     [s \in Range(seed_asins) |-> RowsOfSeed(df_sellers, s)]]
    /\ a_pc' = "done"
    /\ UNCHANGED <<route, svars, nvars, lvars, pvars, cvars, rvars, seed_asins, asin_union>>

\* /run/competitor with the form's fields
InitPipeline ==
    /\ route = "competitor"
    /\ ServerIdle
    /\ NormIdle
    /\ LoopsIdle
    /\ AdReportIdle
    /\ ProductsIdle
    /\ a_pc = "competitor"
    /\ seed_asins = <<>>
    /\ asin_union = <<>>
    /\ search_map = <<>>
    /\ annotated = [written |-> FALSE]
    /\ c_pc = "call"
    /\ have_creds \in BOOLEAN
    /\ c_asin_input \in SeedInputs
    /\ marketplace_input_raw \in PipelineMarketplaces
    /\ c_asin_list = <<>>
    /\ marketplace_value = [known |-> FALSE, text |-> <<>>]
    /\ driver = "none"
    /\ c_idx = 0
    /\ competitor_results = <<>>
    /\ competitors_workbook = NotWritten
    /\ c_fail_at = "none"
    /\ c_searched = <<>>
    /\ c_skipped = {}
    /\ c_last = NoStep
    /\ page_owner = 0

NextPipeline ==
    \/ NextCompetitor
    \/ PipelineError
    \/ BuildUnion
    \/ NextProducts
    \/ Annotate

SpecPipeline == InitPipeline /\ [][NextPipeline]_vars

(* --------------------------- entry points ----------------------------- *)
\* the three entry points that build a working set from user input
Init ==
    \/ InitProducts
    \/ InitCompetitor
    \/ InitAdReport

Next ==
    \/ NextProducts
    \/ NextCompetitor
    \/ NextAdReport

Spec == Init /\ [][Next]_vars

(* ------------------- properties of the working sets ------------------- *)
\* C8: every identifier placed in a working set (the list fetched by
\* run_products_scraper, the tokens searched by run_competitor_scraper, the list
\* extracted from an ad report) matches B0 followed by 8 uppercase alphanumerics.
C8_WorkingSetsMatchPattern ==
    /\ \A i \in DOMAIN asin_list : FullMatchAsin(asin_list[i])
    /\ \A i \in DOMAIN c_searched : FullMatchAsin(c_searched[i])
    /\ \A i \in DOMAIN ad_list : FullMatchAsin(ad_list[i])

(* ------------------- properties of the competitor pipeline ------------ *)
\* the (seed, competitor) pairs of the accumulated records, normalised
DiscoveredPairs ==
    {<<NormAsin(ReadCell(competitor_results[i].Search_ASIN)),
       NormAsin(ReadCell(competitor_results[i].Competitor_ASIN))>> :
        i \in DOMAIN competitor_results}

\* C9: when the pipeline has finished, the product fetch ran over the union of the
\* seeds and the discovered competitors, the annotated Products frame has exactly
\* one row per identifier of the union, and every row carries the Search_ASIN of a
\* seed it originates from (itself, or a seed whose search discovered it).
C9_UnionRowsAnnotatedWithSeed ==
    a_pc = "done" =>
        /\ asin_list = asin_union
        /\ Len(annotated.products) = Len(asin_union)
        /\ \A i \in DOMAIN annotated.products :
              LET row == annotated.products[i]
              IN  /\ row["ASIN"] = asin_union[i]
                  /\ row["Search_ASIN"] \in Range(seed_asins)
                  /\ \/ row["Search_ASIN"] = row["ASIN"]
                     \/ <<row["Search_ASIN"], row["ASIN"]>> \in DiscoveredPairs

\* C10: in the annotated Products and OtherSellers frames every row whose
\* identifier is a seed has Search_ASIN equal to that identifier itself.
C10_SeedRowsMapToThemselves ==
    a_pc = "done" =>
        \A rows \in {annotated.products, annotated.sellers} :
            \A i \in DOMAIN rows :
                rows[i]["ASIN"] \in Range(seed_asins) =>
                    rows[i]["Search_ASIN"] = rows[i]["ASIN"]

\* line 529 has run: search_map holds the map built from the Competitors sheet
SearchMapBuilt == a_pc = "done"

\* C11: in the competitor pipeline every product scrape attempt is made after
\* discovery has finished for all seeds and after the seed-to-competitor map has
\* been constructed.
C11_MapBuiltBeforeFirstFetch ==
    [][(route = "competitor" /\ Len(attempt_log') > Len(attempt_log))
          => (c_pc = "returned" /\ SearchMapBuilt)]_vars

\* C12: the record emitted for an identifier that no target yielded is the NotFound
\* record: it carries the identifier, Marketplace = "N/A", and every other field
\* equals the sentinel "N/A".
C12_NotFoundRecordAllSentinel ==
    (p_pc \in {"for_asin", "done"} /\ p_i > 0 /\ ~asin_found) =>
        LET r == all_main[Len(all_main)]
        IN  /\ r["ASIN"] = asin_list[p_i]
            /\ \A k \in ProductKeys \ {"ASIN"} : r[k] = "N/A"

\* the ways the offers fetch of a found product can fail
OffersFailures == {"request_exception", "bad_response", "parse_exception"}

\* C13: in every scrape attempt on which the product was found, a failure of the
\* offers fetch leaves the offer list unchanged and the product's record is still
\* appended; offer rows are appended only together with a found product and carry
\* its identifier and marketplace.
C13_OffersFailureNeverBlocksRecord ==
    [][Len(attempt_log') > Len(attempt_log) =>
          /\ offers_fetch' \in OffersFailures =>
                /\ all_main' = Append(all_main,
                                      FoundRecord(asin_list[p_i + 1], marketplace_name))
                /\ all_buybox' = all_buybox
          /\ all_buybox' # all_buybox => asin_found'
          /\ \A i \in (Len(all_buybox) + 1)..Len(all_buybox') :
                /\ all_buybox'[i]["ASIN"] = asin_list[p_i + 1]
                /\ all_buybox'[i]["Marketplace"] = marketplace_name]_vars

(* -------------- app: concurrent /run/competitor requests -------------- *)
\* number of /run/competitor requests the server threads work on at once
MaxRequests == 3

Requests == 1..MaxRequests

\* scraper_competitor line 378: the directory used when user_data_dir is not given
DefaultProfile == "~/.h10_chrome_profile"

\* profile_dir of line 378; app.run_competitor passes no user_data_dir
ProfileDir(user_data_dir) ==
    IF user_data_dir = "" THEN DefaultProfile ELSE user_data_dir

\* a browser of another request is running on the directory
ProfileInUse(dir, r) ==
    \E other \in Requests \ {r} : req_pc[other] = "session" /\ req_profile[other] = dir

\* app lines 475-481: the request's thread calls run_competitor_scraper
ServeRequest(r) ==
    /\ req_pc[r] = "pending"
    /\ req_pc' = [req_pc EXCEPT ![r] = "startup"]
    /\ UNCHANGED <<route, nvars, lvars, pvars, cvars, avars, rvars, req_profile>>

\* scraper lines 376-385: Chrome is started on the profile directory; nothing in the
\* code waits for or excludes another run, and a browser asked to start on a
\* directory that is in use either refuses (the exception leaves the function) or
\* starts
LaunchBrowser(r) ==
    /\ req_pc[r] = "startup"
    /\ \E started \in BOOLEAN :
         /\ ~ProfileInUse(ProfileDir(""), r) => started
         /\ IF started
            THEN /\ req_pc' = [req_pc EXCEPT ![r] = "session"]
                 /\ req_profile' = [req_profile EXCEPT ![r] = ProfileDir("")]
            ELSE /\ req_pc' = [req_pc EXCEPT ![r] = "raised"]
                 /\ UNCHANGED req_profile
    /\ UNCHANGED <<route, nvars, lvars, pvars, cvars, avars, rvars>>

\* the run ends with driver.quit(): lines 672 (return) and 436, 440, 463 (handlers)
QuitBrowser(r) ==
    /\ req_pc[r] = "session"
    /\ \E how \in {"returned", "raised"} : req_pc' = [req_pc EXCEPT ![r] = how]
    /\ req_profile' = [req_profile EXCEPT ![r] = "none"]
    /\ UNCHANGED <<route, nvars, lvars, pvars, cvars, avars, rvars>>

\* the requests have arrived and none has been served yet
InitRequests ==
    /\ route = "concurrent"
    /\ ProductsIdle
    /\ CompetitorIdle
    /\ PipelineIdle
    /\ AdReportIdle
    /\ NormIdle
    /\ LoopsIdle
    /\ req_pc = [r \in Requests |-> "pending"]
    /\ req_profile = [r \in Requests |-> "none"]

NextRequests == \E r \in Requests : ServeRequest(r) \/ LaunchBrowser(r) \/ QuitBrowser(r)

SpecRequests == InitRequests /\ [][NextRequests]_vars

\* C14: two competitor-discovery runs never have a browser running on the same
\* profile directory at the same time.
C14_ProfileUseMutuallyExclusive ==
    \A r1, r2 \in Requests :
        (r1 # r2 /\ req_pc[r1] = "session" /\ req_pc[r2] = "session")
            => req_profile[r1] # req_profile[r2]

(* ------------------- properties of the written workbook --------------- *)
\* the written sheet has exactly the columns cols, in order, one row per record, and
\* each cell holds the record's value, or "N/A" where the record has no such key
SheetMatches(sheet, cols, records) ==
    /\ sheet.columns = cols
    /\ Len(sheet.rows) = Len(records)
    /\ \A i \in DOMAIN sheet.rows :
          /\ DOMAIN sheet.rows[i] = Range(cols)
          /\ \A c \in Range(cols) :
                sheet.rows[i][c] = (IF c \in DOMAIN records[i] THEN records[i][c] ELSE "N/A")

\* both sheets of the workbook follow their fixed column lists, of n and m columns
WorkbookHasFixedColumns(n, m) ==
    products_workbook.written =>
        /\ Len(products_workbook.Products.columns) = n
        /\ Len(products_workbook.OtherSellers.columns) = m
        /\ SheetMatches(products_workbook.Products, ProductColumns, all_main)
        /\ SheetMatches(products_workbook.OtherSellers, SellerColumns, all_buybox)

\* C15 (as stated): the Products sheet always has the fixed column list of 23
\* columns and the OtherSellers sheet the fixed 11 columns, whatever the records
\* hold and whether or not there is any record; unset cells equal "N/A".
C15_FixedColumns23And11 == WorkbookHasFixedColumns(23, 11)

\* C15 (amended): the same with the column list of the code, which has 25 columns.
C15_FixedColumns25And11 == WorkbookHasFixedColumns(25, 11)

C15_Witness ==
    /\ products_workbook.written
    /\ Len(all_main) = 2
    /\ all_buybox = <<>>
    /\ IsNotFoundRow(all_main[2])

\* the fields the modelled pages do yield: the identifier and marketplace are passed
\* in, and a product page that is accepted has a title (lines 359-362)
ExtractedProductKeys == {"ASIN", "Marketplace", "Product Title"}

ExtractedOfferKeys == {"ASIN", "Marketplace"}

\* C16: every field of an emitted product record or offer record that could not be
\* extracted holds the sentinel "N/A": no field is absent and no other placeholder
\* is used.
C16_MissingFieldsAreSentinel ==
    /\ \A i \in DOMAIN all_main :
          ~IsNotFoundRow(all_main[i]) =>
              /\ DOMAIN all_main[i] = ProductKeys
              /\ \A k \in ProductKeys \ ExtractedProductKeys : all_main[i][k] = "N/A"
    /\ \A i \in DOMAIN all_buybox :
          /\ DOMAIN all_buybox[i] = OfferKeys
          /\ \A k \in OfferKeys \ ExtractedOfferKeys : all_buybox[i][k] = "N/A"

(* ------------------- properties of the target list -------------------- *)
\* C17: once the selector is resolved, the target list is the single canonical
\* target of the alias that the selector matches when case is ignored, and all
\* configured targets in configuration order when the selector is empty or matches
\* no alias.
C17_SelectorResolvedCaseInsensitively ==
    p_pc \notin {"idle", "call"} =>
        LET sel     == StrStrip(marketplace)
            matches == {a \in MARKETPLACE_ALIASES : StrUpper(a[1]) = StrUpper(sel)}
        IN  IF matches # {}
            THEN \E a \in matches : \E i \in DOMAIN MARKETPLACES :
                    /\ MARKETPLACES[i][1] = a[2]
                    /\ specific_marketplaces = <<MARKETPLACES[i]>>
            ELSE specific_marketplaces = MARKETPLACES

C17_Witness ==
    /\ p_pc = "done"
    /\ marketplace = <<" ", "U", "k", " ">>
    /\ specific_marketplaces = << <<"Amazon UK", "amazon.co.uk">> >>
    /\ all_main # <<>>

(* --------------------------- credentials ------------------------------ *)
\* C18: without the account email or password (neither supplied nor in the
\* environment) run_competitor_scraper leaves at the credentials check: no browser
\* session exists, no token was parsed or searched, no result or workbook was
\* produced; a run of the products scraper never reaches that check and completes
\* without the credentials.
C18_MissingCredsFailAtStartup ==
    /\ (c_pc # "idle" /\ ~have_creds) =>
          /\ c_pc \in {"call", "raised"}
          /\ c_pc = "raised" => c_fail_at = "creds"
          /\ driver = "none"
          /\ c_asin_list = <<>> /\ c_idx = 0
          /\ c_searched = <<>> /\ c_skipped = {}
          /\ competitor_results = <<>>
          /\ ~competitors_workbook.written
    /\ c_fail_at = "creds" => (~have_creds /\ driver = "none")
    /\ route = "products" => (~have_creds /\ c_fail_at # "creds")

C18_Witness ==
    /\ route = "competitor_scraper"
    /\ ~have_creds
    /\ c_asin_input # <<>>
    /\ c_pc = "raised"
    /\ c_fail_at = "creds"
    /\ driver = "none"

(* ------------- extract_unique_asins_from_ad_report alone -------------- *)
MaxReportCells == 4

\* cell values of the two sheets, with a second well-formed identifier
ReportCellPool == CellPool \cup {TokComp}

\* the identifier columns of the two sheets: a column of cells cut in two
ReportSheets ==
    UNION {{<<[i \in 1..cut |-> cells[i]], [i \in 1..(Len(cells) - cut) |-> cells[i + cut]]>> :
                cut \in 0..Len(cells)} : cells \in SeqsUpTo(ReportCellPool, MaxReportCells)}

InitExtract ==
    /\ route = "extract"
    /\ ServerIdle
    /\ NormIdle
    /\ LoopsIdle
    /\ CompetitorIdle
    /\ PipelineIdle
    /\ ProductsIdle
    /\ ad_sheets \in ReportSheets
    /\ ad_list = <<>>
    /\ ad_pc = "call"

NextExtract == AdReportExtract

SpecExtract == InitExtract /\ [][NextExtract]_vars

\* the values the two sheets contribute, in sheet order, before deduplication
ReportValues == CleanColumn(ad_sheets[1]) \o CleanColumn(ad_sheets[2])

FirstOccurrence(v, values) == CHOOSE i \in DOMAIN values :
    values[i] = v /\ \A j \in 1..(i - 1) : values[j] # v

\* C19: the list extracted from an ad report holds exactly the values of the two
\* sheets, each one once, ordered by their first occurrence across the sheets.
C19_ExtractedListIsFirstOccurrences ==
    ad_pc \notin {"idle", "call"} =>
        /\ Range(ad_list) = Range(ReportValues)
        /\ \A i, j \in DOMAIN ad_list : i # j => ad_list[i] # ad_list[j]
        /\ \A i, j \in DOMAIN ad_list :
              i < j => FirstOccurrence(ad_list[i], ReportValues)
                         < FirstOccurrence(ad_list[j], ReportValues)

\* the report [A, B, A, C] gives [A, B, C]
C19_Witness ==
    /\ ad_pc = "scraping"
    /\ ReportValues = <<TokSeed, TokComp, TokSeed, TokShort>>
    /\ ad_list = <<TokSeed, TokComp, TokShort>>
    /\ ad_sheets[1] # <<>> /\ ad_sheets[2] # <<>>

(* --------------------------- _norm_asin alone ------------------------- *)
MaxPad == 1
MaxNormCalls == 2

\* characters put in place of one character of a well-formed identifier
NormChars == {"b", "1", "-", " "}

TokLong == Append(TokSeed, "A")

\* tokens handed to _norm_asin: well-formed and malformed ones, and identifiers
\* with one character replaced
NormTokens ==
    {TokSeed, TokComp, TokLower, TokIsbn, TokShort, TokLong, <<>>}
        \cup {[TokSeed EXCEPT ![i] = c] : i \in DOMAIN TokSeed, c \in NormChars}

\* leading / trailing whitespace
Paddings == SeqsUpTo(Whitespace, MaxPad)

NormInputs == {NaN} \cup {l \o t \o r : l \in Paddings, t \in NormTokens, r \in Paddings}

\* _norm_asin(x), then _norm_asin applied to what it returned (a returned string is
\* never NaN: it reaches pd.isna as a str)
NormCall ==
    /\ route = "norm"
    /\ Len(norm_ret) < MaxNormCalls
    /\ norm_ret' = Append(norm_ret,
                          NormAsin(IF norm_ret = <<>> THEN norm_x
                                   ELSE norm_ret[Len(norm_ret)]))
    /\ UNCHANGED <<route, svars, lvars, pvars, cvars, avars, rvars, norm_x>>

InitNorm ==
    /\ route = "norm"
    /\ ServerIdle
    /\ LoopsIdle
    /\ ProductsIdle
    /\ CompetitorIdle
    /\ PipelineIdle
    /\ AdReportIdle
    /\ norm_x \in NormInputs
    /\ norm_ret = <<>>

NextNorm == NormCall

SpecNorm == InitNorm /\ [][NextNorm]_vars

\* B0 followed by exactly 8 characters of A-Z, 0-9
MatchesAsinPattern(s) ==
    /\ Len(s) = 10
    /\ s[1] = "B" /\ s[2] = "0"
    /\ \A i \in 3..10 : s[i] \in Range(Alphabet)
    /\ StrUpper(s) = s

\* C20: every value _norm_asin returns is the empty marker or an uppercase string
\* matching B0[A-Z0-9]{8}, and applying _norm_asin to a value it returned gives
\* that value back.
C20_NormAsinIdempotentAndCanonical ==
    /\ \A i \in DOMAIN norm_ret : norm_ret[i] = <<>> \/ MatchesAsinPattern(norm_ret[i])
    /\ \A i \in DOMAIN norm_ret : norm_ret[i] = norm_ret[1]

C20_Witness ==
    /\ norm_x = <<" ">> \o TokLower \o <<" ">>
    /\ norm_ret = <<TokSeed, TokSeed>>

(* -------------------- the reveal loop of Harvest alone ----------------- *)
MaxPageCards == 3

\* line 567
max_stall_loops == 10

\* lines 571-594, one pass of "while True": count the cards; with none, sleep and
\* poll again; else update prev_count / stall_loops, scroll (which may load one more
\* card) and leave once stall_loops reaches max_stall_loops
RevealPoll ==
    /\ h_pc = "poll"
    /\ LET count_now == page_count
           stalled   == IF count_now = prev_count THEN stall_loops + 1 ELSE 0
       IN  IF count_now = 0
           THEN UNCHANGED hvars
           ELSE /\ stall_loops' = stalled
                /\ prev_count' = count_now
                /\ \E loaded \in {page_count, page_count + 1} :
                      /\ loaded <= h_total
                      /\ page_count' = loaded
                /\ h_pc' = IF stalled >= max_stall_loops THEN "fetch" ELSE "poll"
                /\ UNCHANGED h_total
    /\ UNCHANGED <<route, svars, nvars, wvars, pvars, cvars, avars, rvars>>

\* the page: a card that is still to come is shown without a scroll
CardAppears ==
    /\ h_pc = "poll"
    /\ page_count < h_total
    /\ page_count' = page_count + 1
    /\ UNCHANGED <<route, svars, nvars, wvars, pvars, cvars, avars, rvars,
                   h_pc, h_total, prev_count, stall_loops>>

\* the loop is entered (lines 568-570) on a page that will show h_total cards, some
\* of them already visible
InitReveal ==
    /\ route = "reveal"
    /\ ServerIdle
    /\ NormIdle
    /\ ProductsIdle
    /\ CompetitorIdle
    /\ PipelineIdle
    /\ AdReportIdle
    /\ h_pc = "poll"
    /\ h_total \in 0..MaxPageCards
    /\ page_count \in 0..h_total
    /\ prev_count = -1
    /\ stall_loops = 0
    /\ w_pc = "idle"
    /\ last_count = -1
    /\ stable_checks = 0
    /\ w_elapsed = 0
    /\ w_window = <<>>
    /\ w_page = NoPage

NextReveal == RevealPoll \/ CardAppears

SpecReveal == InitReveal /\ [][NextReveal]_vars

\* the loop keeps polling, and a card that is to come does come
SpecRevealFair == SpecReveal /\ WF_vars(RevealPoll) /\ WF_vars(CardAppears)

\* C21: the reveal loop always ends, whatever the number of cards of the page,
\* zero included.
C21_RevealLoopTerminates == (h_pc = "poll") ~> (h_pc = "fetch")

(* ------------------ _wait_for_competitor_results alone ---------------- *)
\* polls that fit in max_wait
MaxPolls == 6

\* line 150: "stable_checks >= 3"
StableChecks == 3

\* polls that w_window remembers
WindowLen == StableChecks + 1

\* what a poll saw when the loading indicator was visible (no card count is taken)
SawLoading == -1

\* the page at one poll: indicator visible, number of cards, text has the identifier
Pages == [loading : BOOLEAN, count : 0..MaxPageCards, has_asin : BOOLEAN]

\* the most recent WindowLen entries
Remember(window, seen) ==
    LET all == Append(window, seen)
    IN  IF Len(all) <= WindowLen THEN all
        ELSE [i \in 1..WindowLen |-> all[i + Len(all) - WindowLen]]

\* lines 137-142: the counter moves only on a poll that counts at least one card
StableAfter(count_now, last, stable) ==
    IF count_now > 0
    THEN IF count_now = last THEN stable + 1 ELSE 0
    ELSE stable

LastAfter(count_now, last) == IF count_now > 0 THEN count_now ELSE last

\* lines 123-153, one pass of the while loop. A script that raises while reading the
\* indicator is ignored (lines 129-130), one that raises while reading the page text
\* counts as "identifier present" (lines 147-148).
WaitPoll ==
    /\ w_pc = "poll"
    /\ w_elapsed < MaxPolls
    /\ \E page \in Pages, loading_raises \in BOOLEAN, has_raises \in BOOLEAN :
         LET loading   == ~loading_raises /\ page.loading
             count_now == page.count
             stable    == StableAfter(count_now, last_count, stable_checks)
             has_asin  == has_raises \/ page.has_asin
         IN  /\ w_page' = page
             /\ w_elapsed' = w_elapsed + 1
             /\ IF loading
                THEN /\ w_window' = Remember(w_window, SawLoading)
                     /\ UNCHANGED <<w_pc, last_count, stable_checks>>
                ELSE /\ w_window' = Remember(w_window, count_now)
                     /\ stable_checks' = stable
                     /\ last_count' = LastAfter(count_now, last_count)
                     /\ w_pc' = IF count_now > 0 /\ stable >= StableChecks /\ has_asin
                                THEN "returned" ELSE "poll"
    /\ UNCHANGED <<route, svars, nvars, hvars, pvars, cvars, avars, rvars>>

\* line 155: max_wait has passed
WaitTimeout ==
    /\ w_pc = "poll"
    /\ w_elapsed >= MaxPolls
    /\ w_pc' = "timeout"
    /\ UNCHANGED <<route, svars, nvars, hvars, pvars, cvars, avars, rvars,
                   last_count, stable_checks, w_elapsed, w_window, w_page>>

\* line 134: find_elements is outside the try blocks; its exception leaves the function
WaitError ==
    /\ w_pc = "poll"
    /\ w_elapsed < MaxPolls
    /\ w_pc' = "error"
    /\ UNCHANGED <<route, svars, nvars, hvars, pvars, cvars, avars, rvars,
                   last_count, stable_checks, w_elapsed, w_window, w_page>>

\* lines 106-108
InitWait ==
    /\ route = "wait"
    /\ ServerIdle
    /\ NormIdle
    /\ ProductsIdle
    /\ CompetitorIdle
    /\ PipelineIdle
    /\ AdReportIdle
    /\ h_pc = "idle"
    /\ h_total = 0
    /\ page_count = 0
    /\ prev_count = -1
    /\ stall_loops = 0
    /\ w_pc = "poll"
    /\ last_count = -1
    /\ stable_checks = 0
    /\ w_elapsed = 0
    /\ w_window = <<>>
    /\ w_page = NoPage

NextWait == WaitPoll \/ WaitTimeout \/ WaitError

SpecWait == InitWait /\ [][NextWait]_vars

\* the most recent polls all counted the same positive number of cards
WindowStable ==
    /\ Len(w_window) = WindowLen
    /\ \A i \in DOMAIN w_window : w_window[i] > 0 /\ w_window[i] = w_window[1]

\* C23: when _wait_for_competitor_results has returned, the page of the last poll
\* shows no loading indicator, its text contains the identifier, and the card count
\* was the same over the last consecutive polls.
C23_ReturnMeansLoadedStableAndCurrent ==
    w_pc = "returned" =>
        /\ ~w_page.loading
        /\ w_page.has_asin
        /\ w_page.count > 0
        /\ \A i \in DOMAIN w_window :
              i > Len(w_window) - StableChecks => w_window[i] = w_page.count

\* C27: when _wait_for_competitor_results has returned, the four most recent polls
\* all counted the same positive number of cards (no poll among them saw another
\* count, zero cards or the loading indicator).
C27_StabilityCountsConsecutivePolls ==
    w_pc = "returned" => WindowStable

(* -------------------- marketplace of the two stages ------------------- *)
\* C30: in the competitor pipeline, once the products scraper has resolved its
\* targets, every target it fetches from is the marketplace whose domain discovery
\* selected for the same selector.
C30_FetchTargetsSearchedMarketplace ==
    (route = "competitor" /\ p_pc \notin {"idle", "call"} /\ marketplace_value.known) =>
        /\ specific_marketplaces # <<>>
        /\ \A i \in DOMAIN specific_marketplaces :
              specific_marketplaces[i][2] = marketplace_value.domain

(* ---------------------- per-seed products output ---------------------- *)
\* C29: when the pipeline has finished, for every row of the Competitors sheet that
\* pairs a valid seed with a valid competitor, the per-seed Products sheet of that
\* seed lists the row fetched for the competitor (so a competitor found by several
\* seeds is on the sheet of each of them).
C29_CompetitorListedUnderEverySeed ==
    a_pc = "done" =>
        \A i \in DOMAIN competitors_workbook.rows :
            LET S == NormAsin(ReadCell(competitors_workbook.rows[i].Search_ASIN))
                C == NormAsin(ReadCell(competitors_workbook.rows[i].Competitor_ASIN))
            IN  (S # <<>> /\ C # <<>> /\ S \in Range(seed_asins)) =>
                    \E j \in DOMAIN RowsOfSeed(annotated.products, S) :
                        NormAsin(RowsOfSeed(annotated.products, S)[j]["ASIN"]) = C

(* --------------------------- browser session -------------------------- *)
\* C28: run_competitor_scraper creates a browser session only when it has none, and
\* whenever the run has ended (returned or raised) after creating one, the session
\* has been closed.
C28_OneSessionClosedOnEveryExit ==
    /\ [][driver' = "open" => driver \in {"none", "open"}]_vars
    /\ []((c_pc \in {"returned", "raised"} /\ driver # "none") => driver = "quit")

(* ---------------- properties of the per-identifier loop --------------- *)
\* the token of the iteration that has just ended was skipped
JustSkipped ==
    /\ c_pc \in {"reset", "save"}
    /\ c_idx \in c_skipped

\* C22: the cards Harvest turns into records under the current identifier are the
\* result cards of the current identifier's own search, never cards that an earlier
\* identifier's search left on the page.
C22_HarvestedCardsBelongToCurrentSearch ==
    (c_last.step = "harvest" /\ c_last.n > 0) => c_last.cards_of = c_idx + 1

\* C24: after a timeout of the wait for results the iteration goes to Harvest when
\* the page contains the identifier (without a reload); otherwise one hard reload is
\* made, and the iteration goes to Harvest when the retry succeeds and the
\* identifier is skipped, the loop going on, when it does not.
C24_TimeoutThenOneRetryElseSkip ==
    (c_last.step = "await" /\ c_last.w = "timeout") =>
        IF c_last.body_has_current
        THEN c_pc = "harvest" /\ c_last.reloads = 0
        ELSE /\ c_last.reloads = 1
             /\ IF c_last.retry_ok THEN c_pc = "harvest" ELSE JustSkipped

\* C25: when the search control is not found after the identifier was entered, one
\* hard reload is made; the iteration goes on to the wait when the re-submit
\* succeeds, and the identifier is skipped, the loop going on, when it does not.
C25_SubmitTimeoutThenOneRetryElseSkip ==
    (c_last.step = "submit" /\ c_last.first = "timeout") =>
        /\ c_last.reloads = 1
        /\ IF c_last.retry_ok THEN c_pc = "await" ELSE JustSkipped

\* C26: the input box is looked up only after a soft reset that succeeded or a hard
\* reload that completed, and every entry of an identifier (the first one and the
\* re-submits) directly follows such a reset.
C26_EntryFollowsReset ==
    [][/\ (c_pc # "locate" /\ c_pc' = "locate") =>
             (c_pc = "reset" /\ c_last'.step = "reset" /\ c_last'.clean \in {"soft", "hard"})
       /\ c_searched' # c_searched =>
             \/ c_last'.step = "enter" /\ c_last'.clean \in {"soft", "hard"}
             \/ c_last'.step \in {"submit", "await"} /\ c_last'.reload = "ok"]_vars

C26_Witness ==
    /\ c_idx = 1
    /\ c_pc = "submit"
    /\ c_last.step = "enter"
    /\ c_last.clean = "hard"
    /\ Len(c_searched) = 2

====
